---- MODULE Spec2Model ----
(***************************************************************************)
(* Model of src/study.py, the Streamlit study timer ("Cronometro de        *)
(* Estudos").  The state is st.session_state plus the three worksheets of  *)
(* the spreadsheet (Registros, Materias, Resumo), the wall clock and the   *)
(* position of the script run.  One action per function of the script.     *)
(*                                                                         *)
(* Units.  Clock values are whole seconds (datetime.now() truncated to the *)
(* second).  "Duracao (min)" and "Total (horas)" hold two decimals in the  *)
(* code; the model stores them as integers in hundredths.                  *)
(* Optional values (Python None) are sequences of length 0 or 1.           *)
(***************************************************************************)
EXTENDS Integers, Sequences, FiniteSets, TLC

VARIABLES
    estudo_ativo,              \* st.session_state.estudo_ativo
    inicio_estudo,             \* st.session_state.inicio_estudo (optional clock value)
    materia_atual,             \* st.session_state.materia_atual (optional subject)
    ultimo_registro,           \* st.session_state.ultimo_registro (optional record)
    registros_cache,           \* st.session_state.registros_cache (optional table)
    materias_cache,            \* st.session_state.materias_cache (optional list)
    resumo_cache,              \* st.session_state.resumo_cache (optional table)
    ultima_atualizacao_cache,  \* st.session_state.ultima_atualizacao_cache
    aba_registros,             \* data rows of worksheet "Registros"
    aba_materias,              \* column 1 of worksheet "Materias", header row included
    aba_resumo,                \* rows of worksheet "Resumo" (header row left out)
    agora,                     \* datetime.now(), in seconds
    pc,                        \* "executar": a rerun is pending; "cronometro": the run
                               \* is inside the display loop; "ocioso": the run is over;
                               \* "parado": the run stopped before it drew any widget;
                               \* "clique_parar", "clique_parar_tique": see the section
                               \* on a click that arrives while the loop runs
    evento,                    \* widget event of the last script run that reached the buttons
    resultado,                 \* outcome of the last handler (message shown to the user)
    chamadas,                  \* store calls made by the last step, in order
    falhas,                    \* store calls that have failed so far
    mostrador,                 \* clock text drawn by the display loop (optional)
    resumo_exibido,            \* table drawn by display_resumo_materias (optional)
    grafico_semanal            \* data of the weekly chart drawn (optional)

vars == <<estudo_ativo, inicio_estudo, materia_atual, ultimo_registro,
          registros_cache, materias_cache, resumo_cache, ultima_atualizacao_cache,
          aba_registros, aba_materias, aba_resumo, agora, pc, evento, resultado,
          chamadas, falhas, mostrador, resumo_exibido, grafico_semanal>>

sessao == <<estudo_ativo, inicio_estudo, materia_atual, ultimo_registro>>
caches == <<registros_cache, materias_cache, resumo_cache, ultima_atualizacao_cache>>
planilha == <<aba_registros, aba_materias, aba_resumo>>
relogio == <<agora>>
telas == <<mostrador, resumo_exibido, grafico_semanal>>

(***************************************************************************)
(* Bounds of the model.                                                    *)
(***************************************************************************)
MaxCurtos == 2      \* short waits (5 s each) the clock can show after the first reading
MaxRegistros == 2   \* rows the worksheet "Registros" may grow to
MaxFalhas == 1      \* store calls that fail in one behaviour

(***************************************************************************)
(* Program constants.                                                      *)
(***************************************************************************)
DURACAO_MINIMA_SEGUNDOS == 10
MAX_RETRIES == 5
CACHE_TTL == 600

None == <<>>
Some(x) == <<x>>
Valor(o) == o[1]

(***************************************************************************)
(* Cells of a worksheet.  get_all_records yields a number for a numeric    *)
(* cell and a string otherwise; pd.to_numeric / pd.to_datetime with        *)
(* errors='coerce' turn what does not parse into NaN / NaT.                *)
(***************************************************************************)
Num(v) == [tipo |-> "num", v |-> v]      \* a number (Duracao: hundredths of a minute)
Texto == [tipo |-> "texto", v |-> 0]     \* a cell that is not a number / not a date
NaN == [tipo |-> "nan", v |-> 0]         \* NaN / NaT after coercion
Data(d) == [tipo |-> "data", v |-> d]    \* a date "dd/mm/yyyy", d = days since 1970-01-01

\* subjects in the order pandas sorts them (groupby sorts its keys)
MateriasOrdenadas == <<"", "Direito", "Matematica", "Materia Padrao">>
MateriaPadrao == "Materia Padrao"
\* col_values gives "" for a blank cell that has a filled cell below it
CelulaEmBranco == ""
CabecalhoMaterias == "Materia"

\* strftime("%d/%m/%Y") of a clock value, as the day number it denotes
FormatarData(t) == Data(t \div (24 * 60 * 60))
\* strftime("%H:%M") of a clock value, as the minute of the day
FormatarHoraMinuto(t) == (t % (24 * 60 * 60)) \div 60

\* round(duracao_segundos / 60, 2), in hundredths of a minute.  For whole
\* seconds 100 * s / 60 = 5 * s / 3 is never half way between two integers.
duracao_minutos_truncada(duracao_segundos) == Num((10 * duracao_segundos) \div 6)
duracao_minutos(duracao_segundos) == Num((10 * duracao_segundos + 3) \div 6)

(***************************************************************************)
(* api_request_with_retry.  respostas[i] is what the store answers to the  *)
(* i-th attempt of one call: "ok", "429" (APIError with status 429) or     *)
(* "erro" (any other APIError or Exception).                               *)
(***************************************************************************)
RECURSIVE tentar_sem_ultima_tentativa(_, _)
tentar_sem_ultima_tentativa(respostas, tentativa) ==
    IF tentativa >= MAX_RETRIES
    THEN [fim |-> "none", tentativas |-> tentativa]
    ELSE IF respostas[tentativa + 1] = "ok"
         THEN [fim |-> "return", tentativas |-> tentativa + 1]
         ELSE IF respostas[tentativa + 1] = "429"
              THEN tentar_sem_ultima_tentativa(respostas, tentativa + 1)
              ELSE [fim |-> "raise", tentativas |-> tentativa + 1]

RECURSIVE tentar(_, _)
tentar(respostas, tentativa) ==
    IF tentativa >= MAX_RETRIES
    THEN [fim |-> "none", tentativas |-> tentativa]
    ELSE IF respostas[tentativa + 1] = "ok"
         THEN [fim |-> "return", tentativas |-> tentativa + 1]
         ELSE IF respostas[tentativa + 1] = "429"
              THEN IF tentativa < MAX_RETRIES - 1
                   THEN tentar(respostas, tentativa + 1)
                   ELSE [fim |-> "raise", tentativas |-> tentativa + 1]
              ELSE [fim |-> "raise", tentativas |-> tentativa + 1]

api_request_with_retry(respostas) == tentar(respostas, 0)

Sucesso(respostas) == api_request_with_retry(respostas).fim = "return"

SempreOk == [i \in 1..MAX_RETRIES |-> "ok"]
QuotaDepoisOk(n) == [i \in 1..MAX_RETRIES |-> IF i <= n THEN "429" ELSE "ok"]
QuotaPersistente == [i \in 1..MAX_RETRIES |-> "429"]
ErroAPI == [i \in 1..MAX_RETRIES |-> "erro"]
\* the answers the store gives to one call of a script run: it succeeds
\* after a quota error, or it fails
RespostasAPI == {QuotaDepoisOk(1), ErroAPI}

\* the answer to a call that is not made is immaterial: it is fixed, so that
\* each behaviour of the store is one choice of answers
SemChamada(respostas) == respostas = ErroAPI

Chamada(op, respostas) == [op |-> op, ok |-> Sucesso(respostas)]

\* the store calls of a step are counted; no more than MaxFalhas of a
\* behaviour fail
NumFalhas(ch) == Cardinality({i \in DOMAIN ch : ~ch[i].ok})
ContarFalhas ==
    /\ falhas' = falhas + NumFalhas(chamadas')
    /\ falhas' <= MaxFalhas

(***************************************************************************)
(* Caches.                                                                 *)
(***************************************************************************)
\* cache_expirado(tipo_cache), on a given timestamp table
cache_expirado_no_limite(ultima_att, t) ==
    IF ultima_att = None THEN TRUE ELSE (t - Valor(ultima_att)) >= CACHE_TTL

cache_expirado(ultima_att, t) ==
    IF ultima_att = None THEN TRUE ELSE (t - Valor(ultima_att)) > CACHE_TTL

\* obter_registros(aba_registros, forcar_atualizacao): the table returned and
\* the cache and timestamp it leaves
obter_registros(aba, cache, ultima, forcar_atualizacao, t, respostas) ==
    IF ~forcar_atualizacao /\ cache # None /\ ~cache_expirado(ultima.registros, t)
    THEN [df |-> Valor(cache), cache |-> cache, ultima |-> ultima, chamadas |-> <<>>]
    ELSE IF Sucesso(respostas)
         THEN [df |-> aba, cache |-> Some(aba),
               ultima |-> [ultima EXCEPT !.registros = Some(t)],
               chamadas |-> <<Chamada("registros.get_all_records", respostas)>>]
         ELSE [df |-> IF cache # None THEN Valor(cache) ELSE <<>>,
               cache |-> cache, ultima |-> ultima,
               chamadas |-> <<Chamada("registros.get_all_records", respostas)>>]

\* lista[1:]
Resto(lista) == IF lista = <<>> THEN <<>> ELSE Tail(lista)

\* obter_materias(aba_materias)
obter_materias(aba, cache, ultima, t, respostas) ==
    IF cache # None /\ ~cache_expirado(ultima.materias, t)
    THEN [materias |-> Valor(cache), cache |-> cache, ultima |-> ultima, chamadas |-> <<>>]
    ELSE IF Sucesso(respostas)
         THEN [materias |-> Resto(aba), cache |-> Some(Resto(aba)),
               ultima |-> [ultima EXCEPT !.materias = Some(t)],
               chamadas |-> <<Chamada("materias.col_values", respostas)>>]
         ELSE [materias |-> IF cache # None THEN Valor(cache) ELSE <<MateriaPadrao>>,
               cache |-> cache, ultima |-> ultima,
               chamadas |-> <<Chamada("materias.col_values", respostas)>>]

\* obter_resumo(aba_resumo)
obter_resumo(aba, cache, ultima, t, respostas) ==
    IF cache # None /\ ~cache_expirado(ultima.resumo, t)
    THEN [df |-> Valor(cache), cache |-> cache, ultima |-> ultima, chamadas |-> <<>>]
    ELSE IF Sucesso(respostas)
         THEN [df |-> aba, cache |-> Some(aba),
               ultima |-> [ultima EXCEPT !.resumo = Some(t)],
               chamadas |-> <<Chamada("resumo.get_all_records", respostas)>>]
         ELSE [df |-> IF cache # None THEN Valor(cache) ELSE <<>>,
               cache |-> cache, ultima |-> ultima,
               chamadas |-> <<Chamada("resumo.get_all_records", respostas)>>]

(***************************************************************************)
(* Aggregation.                                                            *)
(***************************************************************************)
\* pd.to_numeric(df['Duracao (min)'], errors='coerce')
to_numeric_tudo_ou_nada(df) ==
    IF \E i \in DOMAIN df : df[i].Duracao.tipo # "num"
    THEN [i \in DOMAIN df |-> [df[i] EXCEPT !.Duracao = NaN]]
    ELSE df
to_numeric(df) ==
    [i \in DOMAIN df |->
        [df[i] EXCEPT !.Duracao = IF df[i].Duracao.tipo = "num" THEN df[i].Duracao ELSE NaN]]

\* pd.to_datetime(df['Data'], errors='coerce', dayfirst=True)
to_datetime(df) ==
    [i \in DOMAIN df |->
        [df[i] EXCEPT !.Data = IF df[i].Data.tipo = "data" THEN df[i].Data ELSE NaN]]

\* Series.sum() of the durations of the rows of a group: NaN is skipped
RECURSIVE SomaDuracao(_)
SomaDuracao(grupo) ==
    IF grupo = <<>> THEN 0
    ELSE LET n == Len(grupo)
         IN  SomaDuracao(SubSeq(grupo, 1, n - 1))
             + (IF grupo[n].Duracao.tipo = "num" THEN grupo[n].Duracao.v ELSE 0)

\* df.groupby('Materia')['Duracao (min)'].sum().reset_index(): one row per
\* subject present, keys sorted.  The column "Total (horas)" of line 174 is
\* a function of the column "Duracao (min)" alone and is not kept.
TotaisPorMateria(df) ==
    LET presentes == SelectSeq(MateriasOrdenadas,
                               LAMBDA m : \E i \in DOMAIN df : df[i].Materia = m)
    IN  [k \in DOMAIN presentes |->
            [Materia |-> presentes[k],
             Duracao |-> SomaDuracao(SelectSeq(df, LAMBDA r : r.Materia = presentes[k]))]]

\* atualizar_resumo(aba_registros, aba_resumo): what it leaves in the caches
\* and in the worksheet "Resumo".  rR, rL, rU answer get_all_records, clear
\* and update.
atualizar_resumo(abaR, cacheR, ultima, abaS, cacheS, t, rR, rL, rU) ==
    LET o == obter_registros(abaR, cacheR, ultima, FALSE, t, rR)
        \* the table returned is the cached object: line 172 writes into it
        cacheN == IF o.cache = None \/ o.df = <<>> THEN o.cache ELSE Some(to_numeric(o.df))
        totais_por_materia == TotaisPorMateria(to_numeric(o.df))
    IN  IF o.df = <<>>
        THEN [registros_cache |-> o.cache, ultima |-> o.ultima,
              aba_resumo |-> IF Sucesso(rL) THEN <<>> ELSE abaS,
              resumo_cache |-> cacheS,
              chamadas |-> o.chamadas \o <<Chamada("resumo.clear", rL)>>]
        ELSE IF ~Sucesso(rL)
        THEN [registros_cache |-> cacheN, ultima |-> o.ultima,
              aba_resumo |-> abaS, resumo_cache |-> cacheS,
              chamadas |-> o.chamadas \o <<Chamada("resumo.clear", rL)>>]
        ELSE IF ~Sucesso(rU)
        THEN [registros_cache |-> cacheN, ultima |-> o.ultima,
              aba_resumo |-> <<>>, resumo_cache |-> cacheS,
              chamadas |-> o.chamadas \o <<Chamada("resumo.clear", rL),
                                           Chamada("resumo.update", rU)>>]
        ELSE [registros_cache |-> cacheN,
              ultima |-> [o.ultima EXCEPT !.resumo = Some(t)],
              aba_resumo |-> totais_por_materia,
              resumo_cache |-> Some(totais_por_materia),
              chamadas |-> o.chamadas \o <<Chamada("resumo.clear", rL),
                                           Chamada("resumo.update", rU)>>]

\* day_name() mapped through mapeamento_dias, as the index of the day in
\* ordem_dias_portugues (1 = Segunda ... 7 = Domingo); 1970-01-01 was a Thursday
DiaSemana(d) == ((d + 3) % 7) + 1

\* gerar_grafico_semanal(df_registros): the table the chart is built from
gerar_grafico_semanal(df_registros, t) ==
    IF df_registros = <<>> THEN None
    ELSE LET df == to_datetime(df_registros)
             data_limite == t - 30 * (24 * 60 * 60)
             df_recentes == SelectSeq(df,
                 LAMBDA r : r.Data.tipo = "data" /\ r.Data.v * (24 * 60 * 60) >= data_limite)
             dias == SelectSeq(<<1, 2, 3, 4, 5, 6, 7>>,
                 LAMBDA d : \E i \in DOMAIN df_recentes : DiaSemana(df_recentes[i].Data.v) = d)
         IN  IF df_recentes = <<>> THEN None
             ELSE Some([k \in DOMAIN dias |->
                      [DiaSemana |-> dias[k],
                       Duracao |-> SomaDuracao(SelectSeq(df_recentes,
                                       LAMBDA r : DiaSemana(r.Data.v) = dias[k]))]])

\* the rows of df in the order of a permutation of their places
Permutar(df, perm) == [k \in DOMAIN df |-> df[perm[k]]]

\* df_resumo.sort_values('Duracao (min)', ascending=False): the tables the
\* call may return.  The sort has one key and the default kind, quicksort,
\* which is not stable: rows of equal duration come out in any order.
sort_values(df) ==
    {Permutar(df, perm) : perm \in
        {q \in [DOMAIN df -> DOMAIN df] :
            /\ \A j, k \in DOMAIN df : q[j] = q[k] => j = k
            /\ \A j, k \in DOMAIN df : j < k => df[q[j]].Duracao >= df[q[k]].Duracao}}

\* formatar_duracao(segundos): HH:MM:SS by two divmod (floor division)
formatar_duracao(segundos) ==
    LET horas == segundos \div 3600
        resto == segundos % 3600
    IN  [horas |-> horas, minutos |-> resto \div 60, segundos |-> resto % 60]

(***************************************************************************)
(* Initial state: session_state as lines 26-41 build it, a spreadsheet     *)
(* whose summary agrees with its records, the first script run pending.    *)
(***************************************************************************)
T0 == 20000 * (24 * 60 * 60) + 23 * 3600 + 59 * 60 + 50

RegistroAntigo ==
    [Data |-> FormatarData(T0 - 2 * (24 * 60 * 60)), Inicio |-> 9 * 60, Fim |-> 9 * 60 + 10,
     Duracao |-> Num(1000), Materia |-> "Direito"]

\* the spreadsheet at the first script run: a new one (no record, no subject),
\* one in use, or one with a blank cell above a subject
PlanilhasIniciais ==
    {[registros |-> <<>>, materias |-> <<CabecalhoMaterias>>],
     [registros |-> <<RegistroAntigo>>,
      materias |-> <<CabecalhoMaterias, "Direito", "Matematica">>],
     [registros |-> <<>>, materias |-> <<CabecalhoMaterias, CelulaEmBranco, "Direito">>]}

\* the readings of the clock: short waits after T0, and one reading more
\* than CACHE_TTL after the last of them
Instantes ==
    {T0 + 5 * i : i \in 0..MaxCurtos} \cup {T0 + 5 * MaxCurtos + CACHE_TTL + 5}

Init ==
    /\ estudo_ativo = FALSE
    /\ inicio_estudo = None
    /\ materia_atual = None
    /\ ultimo_registro = None
    /\ registros_cache = None
    /\ materias_cache = None
    /\ resumo_cache = None
    /\ ultima_atualizacao_cache = [registros |-> None, materias |-> None, resumo |-> None]
    /\ \E p \in PlanilhasIniciais :
          /\ aba_registros = p.registros
          /\ aba_materias = p.materias
    /\ aba_resumo = TotaisPorMateria(to_numeric(aba_registros))
    /\ agora = T0
    /\ pc = "executar"
    /\ evento = "nenhum"
    /\ resultado = "nenhum"
    /\ chamadas = <<>>
    /\ falhas = 0
    /\ mostrador = None
    /\ resumo_exibido = None
    /\ grafico_semanal = None

(***************************************************************************)
(* The clock.                                                              *)
(***************************************************************************)
\* time passes
PassarTempo(t) ==
    /\ pc \in {"ocioso", "cronometro", "parado", "clique_parar", "clique_parar_tique"}
    /\ t > agora
    /\ agora' = t
    /\ UNCHANGED <<sessao, caches, planilha, pc, evento, resultado, chamadas, falhas, telas>>

(***************************************************************************)
(* A script run: main().  It is started by a widget event ev of the user   *)
(* ("iniciar", "parar", "parar_agora": a click of that button; "nenhum":   *)
(* any other interaction) or by st.experimental_rerun() (pc = "executar"). *)
(* A click of "Iniciar Estudo" or "Parar Estudo" may reach a run that does *)
(* not draw the button: the run then handles no click.                     *)
(***************************************************************************)
Eventos == {"nenhum", "iniciar", "parar", "parar_agora"}

\* a click on "Parar Estudo" arrived while the display loop runs and the
\* script run it starts has not begun
CliquePendente == pc \in {"clique_parar", "clique_parar_tique"}

InicioDaExecucao(ev) ==
    /\ pc \in {"executar", "ocioso", "cronometro", "parado"} \/ CliquePendente
    /\ CliquePendente => ev = "parar"
    \* a rerun, or a run after one that drew no widget, carries no click
    /\ pc \in {"executar", "parado"} => ev = "nenhum"
    \* the button "Parar agora" exists only while the display loop draws it
    /\ ev = "parar_agora" => pc = "cronometro"
    /\ evento' = ev

\* main, lines 476-501: the records are read (forced), then the subjects
carregar(rR, rM) ==
    LET o == obter_registros(aba_registros, registros_cache,
                             ultima_atualizacao_cache, TRUE, agora, rR)
        om == obter_materias(aba_materias, materias_cache, o.ultima, agora, rM)
    IN  [registros_cache |-> o.cache,
         materias_cache |-> om.cache,
         ultima |-> om.ultima,
         lista_materias |-> IF om.materias = <<>> THEN <<MateriaPadrao>> ELSE om.materias,
         chamadas |-> o.chamadas \o om.chamadas,
         leu_materias |-> om.chamadas # <<>>]

\* main, lines 476-479: conectar_google_sheets, carregar_planilha or
\* carregar_abas fails and the script run stops (st.stop()) before it reads
\* or draws anything
main_interrompido ==
    /\ pc \in {"executar", "ocioso", "cronometro", "parado"} \/ CliquePendente
    /\ pc' = "parado"
    /\ chamadas' = <<>>
    /\ mostrador' = None
    /\ resumo_exibido' = None
    /\ grafico_semanal' = None
    /\ UNCHANGED <<sessao, caches, planilha, relogio, evento, resultado, falhas>>

\* lines 516-517: the button "Iniciar Estudo" is drawn and was clicked
BotaoIniciarSemGuarda(ev) == ev = "iniciar"
BotaoIniciar(ev) == ~estudo_ativo /\ ev = "iniciar"
\* lines 519-520: the button "Parar Estudo" is drawn and was clicked
BotaoPararSemGuarda(ev) == ev = "parar"
BotaoParar(ev) == estudo_ativo /\ ev = "parar"

\* line 261: the start time stored by handle_iniciar_estudo
inicio_nao_registrado(t) == None
inicio_ao_iniciar(t) == Some(t)

\* main with handle_iniciar_estudo(materia_selecionada), lines 258-264
main_iniciar(ev, m) ==
    /\ InicioDaExecucao(ev)
    /\ BotaoIniciar(ev)
    /\ Len(aba_registros) < MaxRegistros
    /\ \E rR, rM \in RespostasAPI :
       \E c \in {carregar(rR, rM)} :
           /\ ~c.leu_materias => SemChamada(rM)
           /\ \E i \in DOMAIN c.lista_materias : m = c.lista_materias[i]
           /\ registros_cache' = c.registros_cache
           /\ materias_cache' = c.materias_cache
           /\ ultima_atualizacao_cache' = c.ultima
           /\ chamadas' = c.chamadas
    /\ estudo_ativo' = TRUE
    /\ inicio_estudo' = inicio_ao_iniciar(agora)
    /\ materia_atual' = Some(m)
    /\ resultado' = "iniciado"
    /\ ContarFalhas
    /\ pc' = "executar"
    /\ mostrador' = None
    /\ resumo_exibido' = None
    /\ grafico_semanal' = None
    /\ UNCHANGED <<ultimo_registro, resumo_cache, planilha, relogio>>

\* line 271: the minimum duration was not reached
tempo_minimo_invertido(duracao_segundos) == duracao_segundos > DURACAO_MINIMA_SEGUNDOS
tempo_minimo_nao_atingido(duracao_segundos) == duracao_segundos < DURACAO_MINIMA_SEGUNDOS

\* lines 278-284: the row built for the worksheet "Registros"
novo_registro(inicio, fim_estudo, materia) ==
    [Data |-> FormatarData(inicio),
     Inicio |-> FormatarHoraMinuto(inicio),
     Fim |-> FormatarHoraMinuto(fim_estudo),
     Duracao |-> duracao_minutos(fim_estudo - inicio),
     Materia |-> materia]

\* append_row: the row goes below the last row of the worksheet
append_row_no_topo(aba, linha) == <<linha>> \o aba
append_row_repetido(aba, linha) == aba \o <<linha, linha>>
append_row(aba, linha) == Append(aba, linha)

\* line 296: the records cache is marked stale after the append
manter_cache_registros(ultima) == ultima
invalidar_cache_registros(ultima) == [ultima EXCEPT !.registros = None]

\* lines 289-294
montar_ultimo_registro(inicio, fim_estudo, materia) ==
    [materia |-> materia,
     duracao |-> duracao_minutos(fim_estudo - inicio),
     inicio |-> FormatarHoraMinuto(inicio),
     fim |-> FormatarHoraMinuto(fim_estudo)]

\* line 304: estudo_ativo after the try block, whatever the append did
ativo_se_falhou(salvou) == ~salvou
ativo_apos_salvar(salvou) == FALSE

\* main with handle_parar_estudo(abas), lines 266-305.  rA, rR2, rL, rU
\* answer append_row and the three calls of atualizar_resumo.
main_parar(ev) ==
    /\ InicioDaExecucao(ev)
    /\ BotaoParar(ev)
    \* line 269 subtracts inicio_estudo: the handler goes on only if it is set
    /\ inicio_estudo # None
    /\ LET fim_estudo == agora
           inicio == Valor(inicio_estudo)
           duracao_segundos == fim_estudo - inicio
           linha == novo_registro(inicio, fim_estudo, Valor(materia_atual))
           aba1 == append_row(aba_registros, linha)
       IN  \E rR, rM \in RespostasAPI :
           \E c \in {carregar(rR, rM)} :
           /\ ~c.leu_materias => SemChamada(rM)
           /\ materias_cache' = c.materias_cache
           /\ IF tempo_minimo_nao_atingido(duracao_segundos)
              THEN /\ resultado' = "muito_curto"
                   /\ estudo_ativo' = FALSE
                   /\ registros_cache' = c.registros_cache
                   /\ ultima_atualizacao_cache' = c.ultima
                   /\ chamadas' = c.chamadas
                   /\ UNCHANGED <<ultimo_registro, resumo_cache, planilha>>
              ELSE \E rA \in RespostasAPI :
                   IF Sucesso(rA)
                   THEN \E rR2, rL \in RespostasAPI :
                        \E rU \in IF Sucesso(rL) THEN RespostasAPI ELSE {ErroAPI} :
                        \E r \in {atualizar_resumo(aba1, c.registros_cache,
                                        invalidar_cache_registros(c.ultima),
                                        aba_resumo, resumo_cache, agora, rR2, rL, rU)} :
                        /\ aba_registros' = aba1
                        /\ ultimo_registro' =
                               Some(montar_ultimo_registro(inicio, fim_estudo,
                                                           Valor(materia_atual)))
                        /\ registros_cache' = r.registros_cache
                        /\ ultima_atualizacao_cache' = r.ultima
                        /\ aba_resumo' = r.aba_resumo
                        /\ resumo_cache' = r.resumo_cache
                        /\ chamadas' = c.chamadas
                                        \o <<Chamada("registros.append_row", rA)>>
                                        \o r.chamadas
                        /\ resultado' = "registrado"
                        /\ estudo_ativo' = ativo_apos_salvar(TRUE)
                        /\ UNCHANGED aba_materias
                   ELSE /\ registros_cache' = c.registros_cache
                        /\ ultima_atualizacao_cache' = c.ultima
                        /\ chamadas' = c.chamadas \o <<Chamada("registros.append_row", rA)>>
                        /\ resultado' = "erro_ao_salvar"
                        /\ estudo_ativo' = ativo_apos_salvar(FALSE)
                        /\ UNCHANGED <<ultimo_registro, resumo_cache, planilha>>
    /\ ContarFalhas
    /\ pc' = "executar"
    /\ mostrador' = None
    /\ resumo_exibido' = None
    /\ grafico_semanal' = None
    /\ UNCHANGED <<inicio_estudo, materia_atual, relogio>>

\* main with display_cronometro, lines 309-320: no handler ran and a session
\* is active; the loop is entered and draws the clock
main_cronometro(ev) ==
    /\ InicioDaExecucao(ev)
    /\ ~BotaoIniciar(ev) /\ ~BotaoParar(ev)
    /\ estudo_ativo
    /\ ev # "parar_agora"
    /\ \E rR, rM \in RespostasAPI :
       \E c \in {carregar(rR, rM)} :
           /\ ~c.leu_materias => SemChamada(rM)
           /\ registros_cache' = c.registros_cache
           /\ materias_cache' = c.materias_cache
           /\ ultima_atualizacao_cache' = c.ultima
           /\ chamadas' = c.chamadas
    /\ mostrador' = Some(formatar_duracao(agora - Valor(inicio_estudo)))
    /\ ContarFalhas
    /\ pc' = "cronometro"
    /\ resumo_exibido' = None
    /\ grafico_semanal' = None
    /\ UNCHANGED <<sessao, resumo_cache, planilha, relogio, resultado>>

\* line 314 reads inicio_estudo; the loop body does not assign it
inicio_reiniciado_na_iteracao(inicio) == Some(agora)
inicio_apos_iteracao(inicio) == inicio

\* one more iteration of the loop of display_cronometro, lines 313-320
display_cronometro_iteracao ==
    /\ pc = "cronometro"
    /\ estudo_ativo
    /\ mostrador' = Some(formatar_duracao(agora - Valor(inicio_estudo)))
    /\ inicio_estudo' = inicio_apos_iteracao(inicio_estudo)
    /\ chamadas' = <<>>
    /\ UNCHANGED <<estudo_ativo, materia_atual, ultimo_registro, caches, planilha, relogio,
                   pc, evento, resultado, falhas, resumo_exibido, grafico_semanal>>

\* main with display_cronometro, lines 321-323: the run was started by the
\* button "Parar agora" drawn inside the loop
main_parar_agora(ev) ==
    /\ InicioDaExecucao(ev)
    /\ ~BotaoIniciar(ev) /\ ~BotaoParar(ev)
    /\ estudo_ativo
    /\ ev = "parar_agora"
    /\ \E rR, rM \in RespostasAPI :
       \E c \in {carregar(rR, rM)} :
           /\ ~c.leu_materias => SemChamada(rM)
           /\ registros_cache' = c.registros_cache
           /\ materias_cache' = c.materias_cache
           /\ ultima_atualizacao_cache' = c.ultima
           /\ chamadas' = c.chamadas
    /\ estudo_ativo' = FALSE
    /\ ContarFalhas
    /\ pc' = "executar"
    /\ mostrador' = None
    /\ resumo_exibido' = None
    /\ grafico_semanal' = None
    /\ UNCHANGED <<inicio_estudo, materia_atual, ultimo_registro, resumo_cache, planilha,
                   relogio, resultado>>

\* main, lines 524-540, with no handler run and no session active:
\* display_cronometro draws nothing and the three tabs are drawn.  rH, rS, rP
\* answer the reads of display_historico, display_resumo_materias and
\* display_analise_padroes.
main_abas(ev) ==
    /\ InicioDaExecucao(ev)
    /\ ~BotaoIniciar(ev) /\ ~BotaoParar(ev)
    /\ ~estudo_ativo
    /\ \E rR, rM \in RespostasAPI :
       \E c \in {carregar(rR, rM)} :
       /\ ~c.leu_materias => SemChamada(rM)
       /\ \E rH \in RespostasAPI :
          \E oh \in {obter_registros(aba_registros, c.registros_cache, c.ultima,
                                     FALSE, agora, rH)} :
          /\ oh.chamadas = <<>> => SemChamada(rH)
          /\ \E rS \in RespostasAPI :
             \E os \in {obter_resumo(aba_resumo, resumo_cache, oh.ultima, agora, rS)} :
             /\ os.chamadas = <<>> => SemChamada(rS)
             /\ \E rP \in RespostasAPI :
                \E op \in {obter_registros(aba_registros, oh.cache, os.ultima,
                                           FALSE, agora, rP)} :
                /\ op.chamadas = <<>> => SemChamada(rP)
                \* line 416 writes into the table returned, the cached object
                /\ registros_cache' = IF op.cache = None \/ op.df = <<>> THEN op.cache
                                      ELSE Some(to_numeric(op.df))
                /\ materias_cache' = c.materias_cache
                /\ resumo_cache' = os.cache
                /\ ultima_atualizacao_cache' = op.ultima
                /\ resumo_exibido' \in IF os.df = <<>> THEN {None}
                                       ELSE {Some(ordenado) : ordenado \in sort_values(os.df)}
                /\ grafico_semanal' = IF op.df = <<>> THEN None
                                      ELSE gerar_grafico_semanal(to_numeric(op.df), agora)
                /\ chamadas' = c.chamadas \o oh.chamadas \o os.chamadas \o op.chamadas
    /\ ContarFalhas
    /\ pc' = "ocioso"
    /\ mostrador' = None
    /\ UNCHANGED <<sessao, planilha, relogio, resultado>>

Materias == {MateriasOrdenadas[i] : i \in DOMAIN MateriasOrdenadas}

Next ==
    \/ \E t \in Instantes : PassarTempo(t)
    \/ main_interrompido
    \/ \E ev \in Eventos, m \in Materias : main_iniciar(ev, m)
    \/ \E ev \in Eventos : main_parar(ev)
    \/ \E ev \in Eventos : main_cronometro(ev)
    \/ display_cronometro_iteracao
    \/ \E ev \in Eventos : main_parar_agora(ev)
    \/ \E ev \in Eventos : main_abas(ev)

Spec == Init /\ [][Next]_vars

(***************************************************************************)
(* Properties of handle_parar_estudo.                                      *)
(***************************************************************************)
\* the store calls that write
Mutacoes == {"registros.append_row", "resumo.clear", "resumo.update"}

Abs(x) == IF x < 0 THEN -x ELSE x

\* a step that is a script run with handle_parar_estudo
Parada == estudo_ativo /\ \E ev \in Eventos : main_parar(ev)

\* seconds between the start of the session and the clock
Decorrido == agora - Valor(inicio_estudo)

AppendOk(ch) == \E i \in DOMAIN ch : ch[i].op = "registros.append_row" /\ ch[i].ok
AppendFalhou(ch) == \E i \in DOMAIN ch : ch[i].op = "registros.append_row" /\ ~ch[i].ok

\* C1: a stop of an active session less than DURACAO_MINIMA_SEGUNDOS after
\* its start is rejected as too short: no row is appended to Registros, no
\* store call that writes (append_row, clear, update) is made, the worksheets
\* keep their contents and the session is inactive afterwards.
C1_ParadaMuitoCurta ==
    [][(Parada /\ Decorrido < DURACAO_MINIMA_SEGUNDOS)
        => /\ resultado' = "muito_curto"
           /\ ~estudo_ativo'
           /\ aba_registros' = aba_registros
           /\ aba_resumo' = aba_resumo
           /\ \A i \in DOMAIN chamadas' : chamadas'[i].op \notin Mutacoes]_vars

\* a session started, stopped 5 s later and rejected
C1_Witness ==
    /\ pc = "executar" /\ evento = "parar"
    /\ resultado = "muito_curto"
    /\ ~estudo_ativo
    /\ inicio_estudo # None
    /\ agora - Valor(inicio_estudo) = 5

\* C2: a stop of an active session at least DURACAO_MINIMA_SEGUNDOS after
\* its start is not rejected, and when append_row succeeds exactly one row is
\* added below the others: its duration is the elapsed seconds over 60
\* rounded to the nearest hundredth, its subject is materia_atual (the
\* subject the start stored), its date and start time are those of
\* inicio_estudo.  When append_row fails no row is added.
C2_RegistroDaSessao ==
    [][(Parada /\ Decorrido >= DURACAO_MINIMA_SEGUNDOS)
        => /\ resultado' # "muito_curto"
           /\ AppendOk(chamadas')
                => /\ Len(aba_registros') = Len(aba_registros) + 1
                   /\ SubSeq(aba_registros', 1, Len(aba_registros)) = aba_registros
                   /\ LET r == aba_registros'[Len(aba_registros')]
                          inicio == Valor(inicio_estudo)
                      IN  /\ r.Duracao.tipo = "num"
                          /\ 2 * Abs(60 * r.Duracao.v - 100 * Decorrido) <= 60
                          /\ r.Materia = Valor(materia_atual)
                          /\ r.Data = Data(inicio \div 86400)
                          /\ r.Inicio = (inicio % 86400) \div 60
           /\ ~AppendOk(chamadas') => aba_registros' = aba_registros]_vars

\* a session started at 23:59:50 and stopped 10 s later, on the next day:
\* the row holds 0.17 min and the day of the start
C2_Witness ==
    /\ pc = "executar" /\ evento = "parar"
    /\ resultado = "registrado"
    /\ aba_registros # <<>>
    /\ LET r == aba_registros[Len(aba_registros)]
       IN  /\ r.Duracao = Num(17)
           /\ r.Data = FormatarData(Valor(inicio_estudo))
           /\ r.Data # FormatarData(agora)

\* C3: when append_row fails inside handle_parar_estudo the session is
\* inactive after the handler.
C3_FalhaDesativa ==
    [][(Parada /\ AppendFalhou(chamadas')) => ~estudo_ativo']_vars

\* a stop whose append_row failed
C3_Witness ==
    /\ pc = "executar" /\ evento = "parar"
    /\ resultado = "erro_ao_salvar"
    /\ AppendFalhou(chamadas)
    /\ ~estudo_ativo

\* C4: when append_row fails the record that was not saved is retained: a
\* state component still holds its subject, start, end and duration.
C4_RegistroRetido ==
    [][(Parada /\ AppendFalhou(chamadas'))
        => /\ ultimo_registro' # None
           /\ LET u == Valor(ultimo_registro')
              IN  /\ u.materia = Valor(materia_atual)
                  /\ u.inicio = FormatarHoraMinuto(Valor(inicio_estudo))
                  /\ u.fim = FormatarHoraMinuto(agora)
                  /\ u.duracao = duracao_minutos(Decorrido)]_vars

\* C5: the session changes between inactive and active in two ways only.
\* It becomes active by a start.  It becomes inactive by a stop that either
\* appends a row (duration at least the minimum) or is rejected as too short
\* (duration below the minimum); there is no other way, such as a cancel.
C5_SomenteIniciarEParar ==
    [][/\ (~estudo_ativo /\ estudo_ativo')
            => \E m \in Materias : main_iniciar("iniciar", m)
       /\ (estudo_ativo /\ ~estudo_ativo')
            => /\ Parada
               /\ \/ /\ Decorrido >= DURACAO_MINIMA_SEGUNDOS
                     /\ Len(aba_registros') = Len(aba_registros) + 1
                  \/ /\ Decorrido < DURACAO_MINIMA_SEGUNDOS
                     /\ resultado' = "muito_curto"
                     /\ aba_registros' = aba_registros]_vars

(***************************************************************************)
(* Properties of the worksheets.                                           *)
(***************************************************************************)
\* C6: the worksheet "Registros" is append-only: every step keeps the rows
\* it held, unchanged and in their places, and may only add rows below them.
C6_RegistrosSoCrescem ==
    [][/\ Len(aba_registros) <= Len(aba_registros')
       /\ SubSeq(aba_registros', 1, Len(aba_registros)) = aba_registros]_vars

\* a row was appended below the row the worksheet held at the first run
C6_Witness ==
    /\ resultado = "registrado"
    /\ Len(aba_registros) = 2
    /\ aba_registros[1] = RegistroAntigo
    /\ aba_registros[2] # RegistroAntigo

\* the sum of the durations of the rows of a subject, row by row
RECURSIVE TotalDaMateria(_, _)
TotalDaMateria(log, m) ==
    IF log = <<>> THEN 0
    ELSE (IF Head(log).Materia = m /\ Head(log).Duracao.tipo = "num"
          THEN Head(log).Duracao.v ELSE 0)
         + TotalDaMateria(Tail(log), m)

\* resumo holds one row for each subject of log, and no other row; the row
\* of a subject holds the sum of the durations of its records
ResumoDe(resumo, log) ==
    /\ \A i \in DOMAIN log : \E k \in DOMAIN resumo : resumo[k].Materia = log[i].Materia
    /\ \A k \in DOMAIN resumo :
          /\ \E i \in DOMAIN log : log[i].Materia = resumo[k].Materia
          /\ resumo[k].Duracao = TotalDaMateria(log, resumo[k].Materia)
          /\ \A j \in DOMAIN resumo : resumo[j].Materia = resumo[k].Materia => j = k

\* the state a stop leaves when it saved the record and every store call of
\* its script run succeeded
ParadaSemFalha ==
    /\ pc = "executar" /\ evento = "parar"
    /\ resultado = "registrado"
    /\ \A i \in DOMAIN chamadas : chamadas[i].ok

\* C7: after a stop whose store calls all succeed, the summary (the
\* worksheet "Resumo" and resumo_cache) holds, for every subject of the
\* log, the sum of the durations of all its records, the new one included.
C7_ResumoAposParada ==
    ParadaSemFalha
        => /\ ResumoDe(aba_resumo, aba_registros)
           /\ resumo_cache = Some(aba_resumo)

\* the new record is of the subject of an older one: the total is their sum
C7_Witness ==
    /\ ParadaSemFalha
    /\ Len(aba_registros) = 2
    /\ aba_registros[1].Materia = aba_registros[2].Materia
    /\ aba_resumo = <<[Materia |-> aba_registros[1].Materia,
                       Duracao |-> aba_registros[1].Duracao.v + aba_registros[2].Duracao.v]>>

\* a store call of atualizar_resumo failed: a call after append_row
RecomputacaoFalhou(ch) ==
    \E i, j \in DOMAIN ch :
        /\ ch[i].op = "registros.append_row" /\ ch[i].ok
        /\ i < j /\ ~ch[j].ok

\* C8: when the recomputation of the summary fails at one of its store
\* calls, the summary is not corrupted: the worksheet "Resumo" and
\* resumo_cache, from which the summary is served afterwards, each hold
\* what they held before or the correct new summary, never an emptied or
\* partial one.
C8_ResumoNaoCorrompido ==
    [][(Parada /\ RecomputacaoFalhou(chamadas'))
        => /\ \/ aba_resumo' = aba_resumo
              \/ ResumoDe(aba_resumo', aba_registros')
           /\ \/ resumo_cache' = resumo_cache
              \/ /\ resumo_cache' # None
                 /\ ResumoDe(Valor(resumo_cache'), aba_registros')]_vars

(***************************************************************************)
(* A start while a session is active.                                      *)
(***************************************************************************)
\* a script run started by a click on "Iniciar Estudo" while a session is
\* active, whatever it runs
TentativaDeInicio ==
    /\ estudo_ativo
    /\ \/ main_cronometro("iniciar")
       \/ \E m \in Materias : main_iniciar("iniciar", m)

MaxLinhas == 2

Dia0 == T0 \div (24 * 60 * 60)

\* dates of rows: 30 and 29 days before the first reading, three days and
\* two days before it, its own day, and a cell that is not a date
DatasDeEntrada == {Data(Dia0 - 30), Data(Dia0 - 29), Data(Dia0 - 3), Data(Dia0 - 2),
                   Data(Dia0), Texto}
DuracoesDeEntrada == {Num(1000), Num(250), NaN}

LinhasDeEntrada ==
    {[Data |-> d, Inicio |-> 9 * 60, Fim |-> 9 * 60 + 10, Duracao |-> v, Materia |-> "Direito"] :
        d \in DatasDeEntrada, v \in DuracoesDeEntrada}

TabelasDeEntrada == UNION {[1..n -> LinhasDeEntrada] : n \in 0..MaxLinhas}

InitSemanal ==
    /\ agora \in {T0, T0 + 10}
    /\ estudo_ativo = FALSE
    /\ inicio_estudo = None
    /\ materia_atual = None
    /\ ultimo_registro = None
    /\ registros_cache \in {Some(df) : df \in TabelasDeEntrada}
    /\ materias_cache = None
    /\ resumo_cache = None
    /\ ultima_atualizacao_cache = [registros |-> Some(agora), materias |-> None,
                                   resumo |-> None]
    /\ aba_registros = Valor(registros_cache)
    /\ aba_materias = <<CabecalhoMaterias>>
    /\ aba_resumo = TotaisPorMateria(aba_registros)
    /\ pc = "analise"
    /\ evento = "nenhum"
    /\ resultado = "nenhum"
    /\ chamadas = <<>>
    /\ falhas = 0
    /\ mostrador = None
    /\ resumo_exibido = None
    /\ grafico_semanal = None

\* gerar_grafico_semanal(df_registros) is called on the table
analisar ==
    /\ pc = "analise"
    /\ grafico_semanal' = gerar_grafico_semanal(Valor(registros_cache), agora)
    /\ pc' = "analisado"
    /\ UNCHANGED <<sessao, caches, planilha, relogio, evento, resultado, chamadas, falhas,
                   mostrador, resumo_exibido>>

NextSemanal == analisar

SpecSemanal == InitSemanal /\ [][NextSemanal]_vars

\* the rows of a table that count for the weekly summary at clock t: their
\* date parses and is not older than 30 days
NaJanela(r, t) ==
    r.Data.tipo = "data" /\ r.Data.v * (24 * 60 * 60) >= t - 30 * (24 * 60 * 60)

RECURSIVE TotalDoDia(_, _, _)
TotalDoDia(log, dia, t) ==
    IF log = <<>> THEN 0
    ELSE (IF NaJanela(Head(log), t) /\ DiaSemana(Head(log).Data.v) = dia
             /\ Head(log).Duracao.tipo = "num"
          THEN Head(log).Duracao.v ELSE 0)
         + TotalDoDia(Tail(log), dia, t)

\* C9: the weekday summary always has seven entries, in the order Monday
\* to Sunday, and a weekday with no record in the window has the total 0.
C9_SeteDiasDaSemana ==
    pc = "analisado"
        => /\ grafico_semanal # None
           /\ LET g == Valor(grafico_semanal)
              IN  /\ Len(g) = 7
                  /\ \A k \in 1..7 :
                        /\ g[k].DiaSemana = k
                        /\ g[k].Duracao = TotalDoDia(Valor(registros_cache), k, agora)

(***************************************************************************)
(* A stop while no session is active.                                      *)
(***************************************************************************)
\* a script run started by a click on "Parar Estudo" while no session is
\* active, whatever it runs
TentativaDeParada ==
    /\ ~estudo_ativo
    /\ \E ev \in {"parar"} : main_abas(ev) \/ main_parar(ev)

C12_IteracaoNaoAlteraEstado ==
    [][(estudo_ativo /\ display_cronometro_iteracao)
        => UNCHANGED <<estudo_ativo, inicio_estudo, materia_atual, caches, planilha>>]_vars

\* the loop has redrawn the clock 5 s after the start of the session
C12_Witness ==
    /\ pc = "cronometro"
    /\ estudo_ativo
    /\ chamadas = <<>>
    /\ mostrador = Some(formatar_duracao(5))
    /\ agora - Valor(inicio_estudo) = 5

(***************************************************************************)
(* A click on "Parar Estudo" that arrives while the loop of                 *)
(* display_cronometro runs.  The click is registered ("clique_parar"); the  *)
(* run that is in the loop is ended at its next drawing command, so the     *)
(* loop draws the clock at most once more ("clique_parar_tique"); then the  *)
(* script run the click starts begins.                                      *)
(***************************************************************************)
clicar_parar ==
    /\ pc = "cronometro"
    /\ estudo_ativo
    /\ pc' = "clique_parar"
    /\ UNCHANGED <<sessao, caches, planilha, relogio, evento, resultado, chamadas, falhas,
                   telas>>

\* lines 313-320, once more, with the click registered
display_cronometro_ultimo_tique ==
    /\ pc = "clique_parar"
    /\ estudo_ativo
    /\ mostrador' = Some(formatar_duracao(agora - Valor(inicio_estudo)))
    /\ pc' = "clique_parar_tique"
    /\ chamadas' = <<>>
    /\ UNCHANGED <<sessao, caches, planilha, relogio, evento, resultado, falhas,
                   resumo_exibido, grafico_semanal>>

\* the script run a registered click starts: main up to the buttons
\* (main_parar) or up to st.stop() (main_interrompido)
ExecucaoDoClique ==
    /\ CliquePendente
    /\ \/ \E ev \in Eventos : main_parar(ev)
       \/ main_interrompido

NextPreempcao ==
    \/ Next
    \/ clicar_parar
    \/ display_cronometro_ultimo_tique

\* every registered click starts its script run
SpecPreempcao == Init /\ [][NextPreempcao]_vars /\ WF_vars(ExecucaoDoClique)

\* C13: whenever a click on "Parar Estudo" arrives while the loop of
\* display_cronometro runs, the loop ends after at most one more drawing of
\* the clock and the session eventually becomes inactive.
C13_ParadaPreemptiva == CliquePendente ~> ~estudo_ativo

(***************************************************************************)
(* A clock that is set back: datetime.now() is the wall clock, which may   *)
(* show an earlier time at a later read.                                   *)
(***************************************************************************)
AtrasoDoRelogio == 5

\* the wall clock is set back to AtrasoDoRelogio seconds before the start of
\* the session, while the loop draws a session started at the first reading
AtrasarRelogio ==
    /\ pc = "cronometro"
    /\ estudo_ativo
    /\ Valor(inicio_estudo) = T0
    /\ agora = T0
    /\ agora' = Valor(inicio_estudo) - AtrasoDoRelogio
    /\ UNCHANGED <<sessao, caches, planilha, pc, evento, resultado, chamadas, falhas, telas>>

NextRelogio ==
    \/ Next
    \/ AtrasarRelogio

SpecRelogio == Init /\ [][NextRelogio]_vars

\* C14: the elapsed duration is never negative: when the clock read is
\* earlier than inicio_estudo the value used is zero.  The clock drawn by
\* the display loop is that of a duration of zero or more, and a stop at
\* such a clock decides as for a duration of zero.
C14_DuracaoNaoNegativa ==
    /\ mostrador # None
        => /\ Valor(mostrador).horas >= 0
           /\ (estudo_ativo /\ pc = "cronometro" /\ chamadas # <<>>
               /\ agora < Valor(inicio_estudo))
                => mostrador = Some(formatar_duracao(0))
    /\ (pc = "executar" /\ evento = "parar" /\ agora < Valor(inicio_estudo))
        => resultado = "muito_curto"

(***************************************************************************)
(* The summary as a function of the log: atualizar_resumo is applied to a  *)
(* worksheet "Registros" drawn from the tables of at most MaxLinhasResumo  *)
(* rows, every store call succeeding, and display_resumo_materias draws    *)
(* what it left.                                                           *)
(***************************************************************************)
MaxLinhasResumo == 3

LinhasDoResumo ==
    {[Data |-> FormatarData(T0), Inicio |-> 9 * 60, Fim |-> 9 * 60 + 10,
      Duracao |-> v, Materia |-> m] :
        v \in {Num(1000), Num(250), Texto}, m \in {"Direito", "Matematica"}}

TabelasDoResumo == UNION {[1..n -> LinhasDoResumo] : n \in 0..MaxLinhasResumo}

InitResumo ==
    /\ estudo_ativo = FALSE
    /\ inicio_estudo = None
    /\ materia_atual = None
    /\ ultimo_registro = None
    /\ registros_cache = None
    /\ materias_cache = None
    /\ resumo_cache = None
    /\ ultima_atualizacao_cache = [registros |-> None, materias |-> None, resumo |-> None]
    /\ aba_registros \in TabelasDoResumo
    /\ aba_materias = <<CabecalhoMaterias, "Direito", "Matematica">>
    /\ aba_resumo = <<>>
    /\ agora = T0
    /\ pc = "resumo"
    /\ evento = "nenhum"
    /\ resultado = "nenhum"
    /\ chamadas = <<>>
    /\ falhas = 0
    /\ mostrador = None
    /\ resumo_exibido = None
    /\ grafico_semanal = None

\* atualizar_resumo(abas['registros'], abas['resumo'])
resumir ==
    /\ pc = "resumo"
    /\ \E r \in {atualizar_resumo(aba_registros, registros_cache, ultima_atualizacao_cache,
                                  aba_resumo, resumo_cache, agora,
                                  SempreOk, SempreOk, SempreOk)} :
          /\ registros_cache' = r.registros_cache
          /\ ultima_atualizacao_cache' = r.ultima
          /\ aba_resumo' = r.aba_resumo
          /\ resumo_cache' = r.resumo_cache
          /\ chamadas' = r.chamadas
    /\ pc' = "resumido"
    /\ UNCHANGED <<sessao, materias_cache, aba_registros, aba_materias, relogio, evento,
                   resultado, falhas, telas>>

\* display_resumo_materias(abas), lines 369-378
exibir ==
    /\ pc = "resumido"
    /\ \E os \in {obter_resumo(aba_resumo, resumo_cache, ultima_atualizacao_cache, agora,
                               SempreOk)} :
          /\ resumo_cache' = os.cache
          /\ ultima_atualizacao_cache' = os.ultima
          /\ chamadas' = os.chamadas
          /\ resumo_exibido' \in IF os.df = <<>> THEN {None}
                                 ELSE {Some(ordenado) : ordenado \in sort_values(os.df)}
    /\ pc' = "exibido"
    /\ UNCHANGED <<sessao, registros_cache, materias_cache, planilha, relogio, evento,
                   resultado, falhas, mostrador, grafico_semanal>>

NextResumo ==
    \/ resumir
    \/ exibir

SpecResumo == InitResumo /\ [][NextResumo]_vars

\* C15: a row whose duration is not a number contributes zero to the total
\* of its subject and changes nothing else: for every log the summary holds
\* one row per subject of the log, with the sum of the durations of that
\* subject that are numbers, and every call of the aggregation returns.
C15_DuracaoMalformadaContaZero ==
    pc \in {"resumido", "exibido"}
        => /\ ResumoDe(aba_resumo, aba_registros)
           /\ aba_registros # <<>> => resumo_cache = Some(aba_resumo)
           /\ \A i \in DOMAIN chamadas : chamadas[i].ok

\* a subject with a row of 10 min and a row whose duration is text, and
\* another subject whose only row has a duration that is text
C15_Witness ==
    /\ pc = "resumido"
    /\ Len(aba_registros) = 3
    /\ \E i, j, k \in DOMAIN aba_registros :
          /\ aba_registros[i].Materia = "Direito" /\ aba_registros[i].Duracao = Num(1000)
          /\ aba_registros[j].Materia = "Direito" /\ aba_registros[j].Duracao = Texto
          /\ aba_registros[k].Materia = "Matematica" /\ aba_registros[k].Duracao = Texto
    /\ aba_resumo = <<[Materia |-> "Direito", Duracao |-> 1000],
                      [Materia |-> "Matematica", Duracao |-> 0]>>

\* the place of a subject in the ascending order of subject names
PosicaoDaMateria(m) == CHOOSE i \in DOMAIN MateriasOrdenadas : MateriasOrdenadas[i] = m

\* C16: the summary drawn is ordered by descending total, and rows of equal
\* total by ascending subject name, so that the same records give the same
\* sequence whatever their order in the log.
C16_OrdemDeterministica ==
    (pc = "exibido" /\ resumo_exibido # None)
        => LET t == Valor(resumo_exibido)
           IN  \A j, k \in DOMAIN t :
                  j < k => \/ t[j].Duracao > t[k].Duracao
                           \/ /\ t[j].Duracao = t[k].Duracao
                              /\ PosicaoDaMateria(t[j].Materia) < PosicaoDaMateria(t[k].Materia)

(***************************************************************************)
(* The subjects offered to a start.                                        *)
(***************************************************************************)
\* a script run with handle_iniciar_estudo
Inicio == \E m \in Materias : main_iniciar("iniciar", m)

\* C17: the list of subjects offered to a start is never empty (it is the
\* default list when the worksheet "Materias" has no subject, or cannot be
\* read and no list is cached), and the subject of every session started is
\* a member of the list offered, and is not the empty string.
C17_MateriaDaListaOferecida ==
    [][Inicio
        => /\ materia_atual' # None
           /\ Valor(materia_atual') # ""
           /\ \E rR, rM \in RespostasAPI :
                 LET lista == carregar(rR, rM).lista_materias
                 IN  /\ lista # <<>>
                     /\ \E i \in DOMAIN lista : lista[i] = Valor(materia_atual')]_vars

(***************************************************************************)
(* api_request_with_retry as a function of the answers of the store: the   *)
(* answers to the MAX_RETRIES attempts are drawn from all sequences of     *)
(* "ok", "429" and "erro" (held in chamadas), and the function is applied  *)
(* once (its outcome is held in resultado).                                *)
(***************************************************************************)
Respostas == {"ok", "429", "erro"}

InitRetry ==
    /\ estudo_ativo = FALSE
    /\ inicio_estudo = None
    /\ materia_atual = None
    /\ ultimo_registro = None
    /\ registros_cache = None
    /\ materias_cache = None
    /\ resumo_cache = None
    /\ ultima_atualizacao_cache = [registros |-> None, materias |-> None, resumo |-> None]
    /\ aba_registros = <<>>
    /\ aba_materias = <<CabecalhoMaterias>>
    /\ aba_resumo = <<>>
    /\ agora = T0
    /\ pc = "chamar"
    /\ evento = "nenhum"
    /\ resultado = "nenhum"
    /\ chamadas \in [1..MAX_RETRIES -> Respostas]
    /\ falhas = 0
    /\ mostrador = None
    /\ resumo_exibido = None
    /\ grafico_semanal = None

\* api_request_with_retry(func)
chamar ==
    /\ pc = "chamar"
    /\ resultado' = api_request_with_retry(chamadas)
    /\ pc' = "chamado"
    /\ UNCHANGED <<sessao, caches, planilha, relogio, evento, chamadas, falhas, telas>>

NextRetry == chamar

SpecRetry == InitRetry /\ [][NextRetry]_vars

\* the attempts whose answer is not a quota error
NaoQuota(respostas) == {i \in 1..MAX_RETRIES : respostas[i] # "429"}

\* C18: api_request_with_retry calls func at most MAX_RETRIES times and
\* ends: every attempt before the last one made was answered by a quota
\* error (429); the last attempt made is the first one whose answer is not a
\* quota error, or the attempt number MAX_RETRIES; the function returns if
\* and only if that attempt succeeded and raises otherwise, and never leaves
\* the loop without a result.
C18_RetentativaLimitada ==
    pc = "chamado"
        => LET n == resultado.tentativas
           IN  /\ n \in 1..MAX_RETRIES
               /\ \A i \in 1..(n - 1) : chamadas[i] = "429"
               /\ n = IF NaoQuota(chamadas) = {} THEN MAX_RETRIES
                      ELSE CHOOSE i \in NaoQuota(chamadas) :
                               \A j \in NaoQuota(chamadas) : i <= j
               /\ resultado.fim \in {"return", "raise"}
               /\ resultado.fim = "return" <=> chamadas[n] = "ok"

\* four quota errors, then success at the fifth attempt
C18_Witness ==
    /\ pc = "chamado"
    /\ chamadas = QuotaDepoisOk(MAX_RETRIES - 1)
    /\ resultado = [fim |-> "return", tentativas |-> MAX_RETRIES]

C20_AtivoTemInicioEMateria ==
    estudo_ativo => (inicio_estudo # None /\ materia_atual # None)

\* the display loop has computed the elapsed time of an active session
C20_Witness ==
    /\ estudo_ativo
    /\ pc = "cronometro"
    /\ inicio_estudo # None /\ materia_atual # None
    /\ mostrador = Some(formatar_duracao(agora - Valor(inicio_estudo)))
    /\ agora > Valor(inicio_estudo)

(***************************************************************************)
(* The cache of the records.                                               *)
(*                                                                         *)
(* obter_registros is called again and again on one session, by callers    *)
(* that force the refresh (main, line 484) and callers that do not (lines  *)
(* 163, 330, 410), while the clock advances and a saved session appends a  *)
(* row and marks the cache stale (lines 287-296).                          *)
(***************************************************************************)
\* the readings of the clock: around one and two periods of CACHE_TTL
InstantesDoCache ==
    {T0, T0 + 1, T0 + CACHE_TTL, T0 + CACHE_TTL + 1, T0 + 2 * CACHE_TTL + 2}

InitCache ==
    /\ estudo_ativo = FALSE
    /\ inicio_estudo = None
    /\ materia_atual = None
    /\ ultimo_registro = None
    /\ registros_cache = None
    /\ materias_cache = None
    /\ resumo_cache = None
    /\ ultima_atualizacao_cache = [registros |-> None, materias |-> None, resumo |-> None]
    /\ \E p \in PlanilhasIniciais :
          /\ aba_registros = p.registros
          /\ aba_materias = p.materias
    /\ aba_resumo = <<>>
    /\ agora = T0
    /\ pc = "cache"
    /\ evento = "nenhum"
    /\ resultado = "nenhum"
    /\ chamadas = <<>>
    /\ falhas = 0
    /\ mostrador = None
    /\ resumo_exibido = None
    /\ grafico_semanal = None

\* one call obter_registros(aba_registros, forcar_atualizacao), the store
\* answering respostas
consultar(forcar_atualizacao, respostas) ==
    \E r \in {obter_registros(aba_registros, registros_cache, ultima_atualizacao_cache,
                              forcar_atualizacao, agora, respostas)} :
        /\ registros_cache' = r.cache
        /\ ultima_atualizacao_cache' = r.ultima
        /\ chamadas' = r.chamadas
        /\ resultado' = [df |-> r.df, forcar_atualizacao |-> forcar_atualizacao]
        /\ pc' = "consultado"
        /\ UNCHANGED <<sessao, materias_cache, resumo_cache, planilha, relogio,
                       evento, falhas, telas>>

\* the clock between two calls
avancar(t) ==
    /\ t > agora
    /\ agora' = t
    /\ pc' = "cache"
    /\ UNCHANGED <<sessao, caches, planilha, evento, resultado, chamadas, falhas, telas>>

\* a session saved between two calls: its row is appended and the timestamp
\* of the cache is cleared, the cached table staying (lines 287 and 296)
salvar_sessao ==
    /\ Len(aba_registros) < MaxRegistros
    /\ aba_registros' = append_row(aba_registros, novo_registro(T0, agora, MateriaPadrao))
    /\ ultima_atualizacao_cache' = invalidar_cache_registros(ultima_atualizacao_cache)
    /\ pc' = "cache"
    /\ UNCHANGED <<sessao, registros_cache, materias_cache, resumo_cache, aba_materias,
                   aba_resumo, relogio, evento, resultado, chamadas, falhas, telas>>

Consulta == \E f \in BOOLEAN : \E r \in RespostasAPI : consultar(f, r)

NextCache ==
    \/ Consulta
    \/ \E t \in InstantesDoCache : avancar(t)
    \/ salvar_sessao

SpecCache == InitCache /\ [][NextCache]_vars

\* C21: a call of obter_registros contacts the store unless the refresh is
\* not forced, a cached table exists and its timestamp is at most CACHE_TTL
\* old; without contact it returns the cached table and changes nothing; a
\* read that succeeds returns the table read and makes it the cache, stamped
\* with the time of the call; a read that fails returns the previous cache,
\* or an empty table if there is none, and leaves cache and timestamp as they
\* were.  So a call that finds the cache older than CACHE_TTL and leaves it
\* in place has made a store read that failed.
C21_CacheDeRegistros ==
    [][Consulta =>
         LET forcado == resultado'.forcar_atualizacao
             df      == resultado'.df
             existe  == registros_cache # None
             datado  == ultima_atualizacao_cache.registros # None
             idade   == agora - Valor(ultima_atualizacao_cache.registros)
             fresco  == ~forcado /\ existe /\ datado /\ idade <= CACHE_TTL
             leu     == chamadas' # <<>>
         IN  /\ leu <=> ~fresco
             /\ ~leu => /\ df = Valor(registros_cache)
                        /\ UNCHANGED <<registros_cache, ultima_atualizacao_cache>>
             /\ leu => /\ Len(chamadas') = 1
                       /\ chamadas'[1].op = "registros.get_all_records"
             /\ (leu /\ chamadas'[1].ok)
                  => /\ df = aba_registros
                     /\ registros_cache' = Some(aba_registros)
                     /\ ultima_atualizacao_cache' =
                            [ultima_atualizacao_cache EXCEPT !.registros = Some(agora)]
             /\ (leu /\ ~chamadas'[1].ok)
                  => /\ df = IF existe THEN Valor(registros_cache) ELSE <<>>
                     /\ UNCHANGED <<registros_cache, ultima_atualizacao_cache>>
             /\ (existe /\ datado /\ idade > CACHE_TTL
                   /\ UNCHANGED <<registros_cache, ultima_atualizacao_cache>>)
                  => /\ leu /\ ~chamadas'[1].ok
                     /\ df = Valor(registros_cache)]_vars

\* a call that does not force the refresh, made exactly CACHE_TTL after the
\* cache was filled, is answered from the cache
C21_Witness ==
    /\ pc = "consultado"
    /\ resultado.forcar_atualizacao = FALSE
    /\ chamadas = <<>>
    /\ registros_cache # None
    /\ resultado.df = Valor(registros_cache)
    /\ ultima_atualizacao_cache.registros # None
    /\ agora - Valor(ultima_atualizacao_cache.registros) = CACHE_TTL

====
